---- MODULE Spec2Model ----
(***************************************************************************)
(* A model of recipe_grid's HTML renderer (recipe_grid/renderer/html.py).  *)
(*                                                                         *)
(* Every renderer is a pure function from a recipe value to a markup       *)
(* string.  The model keeps the markup as the element tree the string      *)
(* denotes:                                                                *)
(*   - a Python str is a sequence of fragments; text that the code         *)
(*     transforms character by character (escaping, replace, the regular   *)
(*     expressions) is held one character per fragment;                    *)
(*   - markup is a sequence of nodes; a node is a text fragment (tag = "") *)
(*     or an element made by t(): its tag, its attributes in order, and    *)
(*     its body, again markup.                                             *)
(* The whitespace t() adds to lay out a multi-line body (the "\n" joins    *)
(* between sibling elements and their indentation) is not part of the      *)
(* tree.                                                                   *)
(*                                                                         *)
(* The state is one render call: its name, its arguments, the markup it    *)
(* returned and the exception it raised, if any.  The renderers share no   *)
(* state, so a behaviour is a single call made from the idle state.        *)
(***************************************************************************)
EXTENDS Integers, Sequences, FiniteSets, TLC

VARIABLES call, args, result, raised

vars == <<call, args, result, raised>>

(***************************************************************************)
(* Bounds of the model.                                                    *)
(***************************************************************************)
MaxStrLen == 5      \* longest formatter string handed to render_number
MaxPrepLen == 2     \* longest preposition of a Proportion
MaxSpan == 2        \* largest row or column span of a cell
MaxRows == 2        \* most rows of a grid
MaxCols == 2        \* most columns of a grid

(***************************************************************************)
(* Strings.                                                                *)
(***************************************************************************)
None == "None"

RECURSIVE Concat(_)
\* "".join(parts)
Concat(parts) ==
    IF parts = <<>> THEN <<>> ELSE Head(parts) \o Concat(Tail(parts))

RECURSIVE JoinStr(_, _)
\* sep.join(parts), for strings
JoinStr(parts, sep) ==
    IF parts = <<>> THEN <<>>
    ELSE IF Len(parts) = 1 THEN parts[1]
    ELSE parts[1] \o sep \o JoinStr(Tail(parts), sep)

RECURSIVE ReplaceChar(_, _, _)
\* s.replace(c, r) for a one-character c
ReplaceChar(s, c, r) ==
    IF s = <<>> THEN <<>>
    ELSE (IF Head(s) = c THEN r ELSE <<Head(s)>>) \o ReplaceChar(Tail(s), c, r)

\* html.escape(s), quote=True: "&" first, then "<", ">", '"' and "'"
Escape(s) ==
    LET s1 == ReplaceChar(s, "&", <<"&", "a", "m", "p", ";">>)
        s2 == ReplaceChar(s1, "<", <<"&", "l", "t", ";">>)
        s3 == ReplaceChar(s2, ">", <<"&", "g", "t", ";">>)
        s4 == ReplaceChar(s3, "\"", <<"&", "q", "u", "o", "t", ";">>)
    IN  ReplaceChar(s4, "'", <<"&", "#", "x", "2", "7", ";">>)

(***************************************************************************)
(* Markup.                                                                 *)
(***************************************************************************)
\* a run of text, one node per fragment
Txt(s) ==
    [i \in 1..Len(s) |-> [tag |-> "", attrs |-> <<>>, body |-> <<>>, ch |-> s[i]]]

\* the attribute class_=names
Class(names) == << <<"class", names>> >>

\* t(tag, body, **attrs): one element
T(tag, body, attrs) ==
    << [tag |-> tag, attrs |-> attrs, body |-> body, ch |-> ""] >>

(***************************************************************************)
(* Numbers: int, Fraction and float values, held as a normalised ratio     *)
(* num/den and a flag telling a float from the exact kinds.                *)
(***************************************************************************)
RECURSIVE GCD(_, _)
GCD(a, b) == IF b = 0 THEN a ELSE GCD(b, a % b)

Num(n, d, float) ==
    LET g == GCD(n, d) IN [num |-> n \div g, den |-> d \div g, float |-> float]

Whole(n) == Num(n, 1, FALSE)

\* a * b: a float as soon as one factor is
Mul(a, b) == Num(a.num * b.num, a.den * b.den, a.float \/ b.float)

\* a == b, Python's comparison by value across int, Fraction and float
NumEq(a, b) == a.num * b.den = b.num * a.den

\* an absent (None) and a present optional value
Nothing == <<>>
Some(x) == <<x>>

RECURSIVE Digits(_)
\* the decimal digits of a natural number
Digits(n) ==
    LET d == <<"0", "1", "2", "3", "4", "5", "6", "7", "8", "9">>[(n % 10) + 1]
    IN  IF n < 10 THEN <<d>> ELSE Append(Digits(n \div 10), d)

\* format_number(number): an integer as its digits, a Fraction as a (mixed)
\* fraction, a float as a decimal of two places
FormatNumber(number) ==
    LET whole == number.num \div number.den
        rest == number.num % number.den
    IN  IF number.den = 1 THEN Digits(number.num)
        ELSE IF number.float
        THEN LET hundredths == (rest * 100) \div number.den
             IN  Digits(whole) \o <<".">> \o Digits(hundredths \div 10)
                     \o Digits(hundredths % 10)
        ELSE (IF whole = 0 THEN <<>> ELSE Digits(whole) \o <<" ">>)
                 \o Digits(rest) \o <<"/">> \o Digits(number.den)

(***************************************************************************)
(* render_number                                                           *)
(***************************************************************************)
Digit == {"0", "1", "2", "3", "4", "5", "6", "7", "8", "9"}

AllDigits(s, from, to) == \A k \in from..to : s[k] \in Digit

\* A fraction pattern that lost its optional integer part: r"()(\d+)/(\d+)"
FullMatchNoInteger(string) ==
    { ij \in {0} \X (1..Len(string)) :
        /\ ij[2] >= 2
        /\ ij[2] < Len(string)
        /\ string[ij[2]] = "/"
        /\ AllDigits(string, 1, ij[2] - 1)
        /\ AllDigits(string, ij[2] + 1, Len(string)) }

\* re.fullmatch(r"((?:\d+ )?)(\d+)/(\d+)", string): the pairs <<i, j>> with
\* group 1 = string[1..i], group 2 = string[i+1..j-1], "/" at j and
\* group 3 = string[j+1..]
FullMatch(string) ==
    { ij \in (0..Len(string)) \X (1..Len(string)) :
        LET i == ij[1]
            j == ij[2]
        IN  /\ \/ i = 0
               \/ /\ i >= 2
                  /\ string[i] = " "
                  /\ AllDigits(string, 1, i - 1)
            /\ j >= i + 2
            /\ j < Len(string)
            /\ string[j] = "/"
            /\ AllDigits(string, i + 1, j - 1)
            /\ AllDigits(string, j + 1, Len(string)) }

\* render_number from the formatter's string on
RenderNumberString(string) ==
    LET match == FullMatch(string)
    IN  IF match # {}
        THEN LET ij == CHOOSE m \in match : TRUE
                 integer == SubSeq(string, 1, ij[1])
                 superscript == T("sup", Txt(SubSeq(string, ij[1] + 1, ij[2] - 1)), <<>>)
                 subscript == T("sub", Txt(SubSeq(string, ij[2] + 1, Len(string))), <<>>)
             IN  Txt(integer) \o superscript \o Txt(<<"&frasl;">>) \o subscript
        ELSE Txt(string)

\* render_number(number)
RenderNumber(number) == RenderNumberString(FormatNumber(number))

(***************************************************************************)
(* The unit system (recipe_grid.units.UNIT_SYSTEM): sets of related units, *)
(* each unit with its size in the set's base unit; a size that is a float  *)
(* makes every conversion through it a float.                              *)
(***************************************************************************)
CodePoints ==
    <<" ", "&", "*", "-", ".", "/", "0", "1", "2", "3", "4", "5", "6", "7", "8", "9",
      "<", "A", "B", "C", "D", "E", "F", "G", "H", "I", "J", "K", "L", "M", "N",
      "O", "P", "Q", "R", "S", "T", "U", "V", "W", "X", "Y", "Z", "_",
      "a", "b", "c", "d", "e", "f", "g", "h", "i", "j", "k", "l", "m", "n",
      "o", "p", "q", "r", "s", "t", "u", "v", "w", "x", "y", "z">>

OrdTable ==
    [c \in { CodePoints[k] : k \in 1..Len(CodePoints) } |->
        CHOOSE k \in 1..Len(CodePoints) : CodePoints[k] = c]

\* ord(c), up to the order of the characters
Ord(c) == OrdTable[c]

Upper == <<"A", "B", "C", "D", "E", "F", "G", "H", "I", "J", "K", "L", "M", "N",
           "O", "P", "Q", "R", "S", "T", "U", "V", "W", "X", "Y", "Z">>

\* str.lower()
Lower(s) ==
    [k \in 1..Len(s) |->
        IF \E u \in 1..Len(Upper) : Upper[u] = s[k]
        THEN CodePoints[Ord(s[k]) + 27]
        ELSE s[k]]

RECURSIVE StrLess(_, _)
\* a < b on strings
StrLess(a, b) ==
    IF b = <<>> THEN FALSE
    ELSE IF a = <<>> THEN TRUE
    ELSE IF Head(a) # Head(b) THEN Ord(Head(a)) < Ord(Head(b))
    ELSE StrLess(Tail(a), Tail(b))

UNIT_SYSTEM ==
    << << [name |-> <<"t", "s", "p">>, size |-> Whole(1)],
          [name |-> <<"t", "b", "s", "p">>, size |-> Whole(3)],
          [name |-> <<"c", "u", "p">>, size |-> Whole(48)],
          [name |-> <<"m", "l">>, size |-> Num(1, 5, TRUE)] >>,
       << [name |-> <<"g">>, size |-> Whole(1)],
          [name |-> <<"k", "g">>, size |-> Whole(1000)],
          [name |-> <<"l", "b">>, size |-> Num(454, 1, TRUE)] >>,
       << [name |-> <<"p", "i", "n", "c", "h">>, size |-> Whole(1)] >> >>

\* the sets of related units that hold the unit
UnitSetsOf(unit) ==
    { k \in 1..Len(UNIT_SYSTEM) :
        \E u \in 1..Len(UNIT_SYSTEM[k]) : UNIT_SYSTEM[k][u].name = unit }

\* whether iter_conversions_from(unit) raises KeyError
UnitKnown(unit) == UnitSetsOf(unit) # {}

\* UNIT_SYSTEM.iter_conversions_from(unit): the (scale, name) pairs of the
\* related units, the unit's own pair with the scale 1, in the table's order
IterConversionsFrom(unit) ==
    LET set == UNIT_SYSTEM[CHOOSE k \in UnitSetsOf(unit) : TRUE]
        from == set[CHOOSE u \in 1..Len(set) : set[u].name = unit]
    IN  [u \in 1..Len(set) |->
            [scale |-> IF set[u].name = unit THEN Whole(1)
                       ELSE Num(from.size.num * set[u].size.den,
                                from.size.den * set[u].size.num,
                                from.size.float \/ set[u].size.float),
             name |-> set[u].name]]

(***************************************************************************)
(* render_quantity                                                         *)
(***************************************************************************)
\* The sort key without its isinstance(scale, float) component
KeyLessNoFloat(a, b) ==
    LET a_not_one == ~NumEq(a.scale, Whole(1))
        b_not_one == ~NumEq(b.scale, Whole(1))
    IN  IF a_not_one # b_not_one THEN b_not_one
        ELSE StrLess(a.name, b.name)

\* key(a) < key(b) for key = (scale != 1, isinstance(scale, float), name)
KeyLess(a, b) ==
    LET a_not_one == ~NumEq(a.scale, Whole(1))
        b_not_one == ~NumEq(b.scale, Whole(1))
    IN  IF a_not_one # b_not_one THEN b_not_one
        ELSE IF a.scale.float # b.scale.float THEN b.scale.float
        ELSE StrLess(a.name, b.name)

RECURSIVE Insert(_, _)
\* x put into the sorted list, behind the items that are not greater
Insert(sorted, x) ==
    IF sorted = <<>> THEN <<x>>
    ELSE IF KeyLess(x, Head(sorted)) THEN <<x>> \o sorted
    ELSE <<Head(sorted)>> \o Insert(Tail(sorted), x)

RECURSIVE Sorted(_)
\* sorted(items, key=...): stable
Sorted(items) ==
    IF items = <<>> THEN <<>>
    ELSE Insert(Sorted(SubSeq(items, 1, Len(items) - 1)), items[Len(items)])

\* the alternatives computed inside the try block, before the native one is
\* given its original unit name
ConvertedForms(quantity, conversions) ==
    LET sorted == Sorted(conversions)
    IN  [k \in 1..Len(sorted) |->
            [value |-> Mul(quantity.value, sorted[k].scale), unit |-> sorted[k].name]]

\* A lookup failure that is not caught
QuantityRaisedUncaught(quantity, known, conversions) ==
    IF quantity.unit = Nothing THEN None
    ELSE IF ~known THEN "KeyError"
    ELSE None

\* the exception render_quantity raises, if any; known and conversions are
\* what iter_conversions_from did for the lower-cased unit
QuantityRaised(quantity, known, conversions) ==
    IF quantity.unit = Nothing \/ ~known THEN None
    ELSE IF conversions = <<>> THEN "IndexError"
    ELSE IF ~NumEq(ConvertedForms(quantity, conversions)[1].value, quantity.value)
    THEN "AssertionError"
    ELSE None

\* alternative_forms
AlternativeForms(quantity, known, conversions) ==
    IF known
    THEN [ConvertedForms(quantity, conversions) EXCEPT
             ![1] = [value |-> quantity.value, unit |-> quantity.unit[1]]]
    ELSE << [value |-> quantity.value, unit |-> quantity.unit[1]] >>

RenderQuantityWith(quantity, known, conversions) ==
    IF quantity.unit = Nothing
    THEN T("span", RenderNumber(quantity.value),
           Class(<<"rg-quantity-unitless", " ", "rg-scaled-value">>))
             \o Txt(Escape(quantity.preposition))
    ELSE LET alternative_forms == AlternativeForms(quantity, known, conversions)
             all_forms ==
                 [k \in 1..Len(alternative_forms) |->
                     RenderNumber(alternative_forms[k].value)
                         \o Txt(Escape(quantity.value_unit_spacing))
                         \o Txt(Escape(alternative_forms[k].unit))]
         IN  IF Len(all_forms) = 1
             THEN T("span", all_forms[1],
                    Class(<<"rg-quantity-without-conversions", " ", "rg-scaled-value">>))
                      \o Txt(Escape(quantity.preposition))
             ELSE T("span",
                    all_forms[1]
                        \o T("ul",
                             Concat([k \in 1..(Len(all_forms) - 1) |->
                                        T("li", all_forms[k + 1], <<>>)]),
                             Class(<<"rg-quantity-conversions">>)),
                    Class(<<"rg-quantity-with-conversions", " ", "rg-scaled-value">>)
                        \o << <<"tabindex", <<"0">>>> >>)
                      \o Txt(Escape(quantity.preposition))

\* what the unit system yields for the quantity's unit, in the table's order
ConversionsOf(quantity) ==
    IF quantity.unit # Nothing /\ UnitKnown(Lower(quantity.unit[1]))
    THEN IterConversionsFrom(Lower(quantity.unit[1]))
    ELSE <<>>

QuantityKnown(quantity) ==
    quantity.unit # Nothing /\ UnitKnown(Lower(quantity.unit[1]))

\* render_quantity(quantity)
RenderQuantity(quantity) ==
    RenderQuantityWith(quantity, QuantityKnown(quantity), ConversionsOf(quantity))

(***************************************************************************)
(* render_proportion                                                       *)
(***************************************************************************)
Times == <<"&", "t", "i", "m", "e", "s", ";">>

\* The replacement made before the escaping, which then escapes the glyph
ProportionPrepositionReplaceFirst(preposition) ==
    Escape(ReplaceChar(preposition, "*", Times))

\* the preposition of a Proportion with a value: escaped, then "*" replaced
ProportionPreposition(preposition) ==
    ReplaceChar(Escape(preposition), "*", Times)

RenderProportion(proportion) ==
    IF proportion.value = Nothing
    THEN T("span",
           Txt(Escape(proportion.remainder_wording \o proportion.preposition)),
           Class(<<"rg-proportion-remainder">>))
    ELSE T("span",
           RenderNumber(IF proportion.percentage
                        THEN Mul(proportion.value[1], Whole(100))
                        ELSE proportion.value[1])
               \o Txt(ProportionPreposition(proportion.preposition)),
           Class(<<"rg-proportion">>))

(***************************************************************************)
(* Scaled value strings (recipe_grid.scaled_value_string): a sequence of   *)
(* segments, each a literal string or a number.                            *)
(***************************************************************************)
Str(text) == [kind |-> "str", text |-> text, number |-> Whole(0)]
Number(number) == [kind |-> "num", text |-> <<>>, number |-> number]

\* str(string): the numbers formatted plainly, the text as it is
SvsStr(string) ==
    Concat([k \in 1..Len(string) |->
               IF string[k].kind = "num" THEN FormatNumber(string[k].number)
               ELSE string[k].text])

\* render_scaled_value_string(string)
RenderScaledValueString(string) ==
    Concat([k \in 1..Len(string) |->
               IF string[k].kind = "num"
               THEN T("span", RenderNumber(string[k].number), Class(<<"rg-scaled-value">>))
               ELSE Txt(Escape(string[k].text))])

(***************************************************************************)
(* Ingredients, references, steps and sub recipes                          *)
(***************************************************************************)
\* render_ingredient(ingredient)
RenderIngredient(ingredient) ==
    LET quantity == IF ingredient.quantity # Nothing
                    THEN RenderQuantity(ingredient.quantity[1]) \o Txt(<<" ">>)
                    ELSE <<>>
    IN  quantity \o RenderScaledValueString(ingredient.description)

\* the characters the pattern [^a-zA-Z0-9._-] leaves alone
IdChars ==
    { CodePoints[k] : k \in 1..Len(CodePoints) } \ {" ", "&", "*", "/", "<"}

RECURSIVE LStrip(_, _)
LStrip(s, c) == IF s # <<>> /\ Head(s) = c THEN LStrip(Tail(s), c) ELSE s

RECURSIVE RStrip(_, _)
RStrip(s, c) ==
    IF s # <<>> /\ s[Len(s)] = c THEN RStrip(SubSeq(s, 1, Len(s) - 1), c) ELSE s

\* generate_subrecipe_output_id(sub_recipe, output_index, prefix)
GenerateSubrecipeOutputId(sub_recipe, output_index, prefix) ==
    LET name == SvsStr(sub_recipe.output_names[output_index + 1])
        subbed == [k \in 1..Len(name) |-> IF name[k] \in IdChars THEN name[k] ELSE "-"]
    IN  prefix \o RStrip(LStrip(subbed, "-"), "-")

\* A reference that leaves the amount out whenever it is a Proportion
ReferenceAmountNeverProportion(reference) ==
    IF reference.amount.kind = "Quantity"
    THEN RenderQuantity(reference.amount) \o Txt(<<" ">>)
    ELSE <<>>

\* amount, the local of render_reference
ReferenceAmount(reference) ==
    IF reference.amount.kind = "Quantity"
    THEN RenderQuantity(reference.amount) \o Txt(<<" ">>)
    ELSE IF reference.amount.value = Nothing
            \/ ~NumEq(reference.amount.value[1], Whole(1))
    THEN RenderProportion(reference.amount) \o Txt(<<" ">>)
    ELSE <<>>

\* the exception render_reference raises, if any
ReferenceRaised(reference) ==
    IF reference.amount.kind = "Quantity"
    THEN QuantityRaised(reference.amount, QuantityKnown(reference.amount),
                        ConversionsOf(reference.amount))
    ELSE IF reference.amount.kind = "Proportion" THEN None
    ELSE "NotImplementedError"

\* render_reference(reference, id_prefix)
RenderReference(reference, id_prefix) ==
    LET name == RenderScaledValueString(
                    reference.sub_recipe.output_names[reference.output_index + 1])
    IN  T("a", ReferenceAmount(reference) \o name,
          << <<"href", <<"#">> \o GenerateSubrecipeOutputId(
                                      reference.sub_recipe, reference.output_index,
                                      id_prefix)>> >>)

\* render_step(step)
RenderStep(step) == RenderScaledValueString(step.description)

\* render_sub_recipe_header(sub_recipe)
RenderSubRecipeHeader(sub_recipe) ==
    RenderScaledValueString(sub_recipe.output_names[1])

\* render_sub_recipe_outputs(sub_recipe, id_prefix)
RenderSubRecipeOutputs(sub_recipe, id_prefix) ==
    T("ul",
      Concat([k \in 1..Len(sub_recipe.output_names) |->
                 T("li", RenderScaledValueString(sub_recipe.output_names[k]),
                   << <<"id", GenerateSubrecipeOutputId(sub_recipe, k - 1, id_prefix)>> >>)]),
      Class(<<"rg-sub-recipe-output-list">>))

(***************************************************************************)
(* render_cell                                                             *)
(***************************************************************************)
\* BorderType (recipe_grid.renderer.table), each member by its name
normal == <<"n", "o", "r", "m", "a", "l">>
sub_recipe == <<"s", "u", "b", "_", "r", "e", "c", "i", "p", "e">>
none == <<"n", "o", "n", "e">>
BorderType == { normal, sub_recipe, none }

Kinds == {"Ingredient", "Reference", "Step", "SubRecipe"}

\* Spans given only when they exceed 2
CellSpansOverTwo(cell) ==
    (IF cell.columns > 2 THEN << <<"colspan", Digits(cell.columns)>> >> ELSE <<>>)
        \o (IF cell.rows > 2 THEN << <<"rowspan", Digits(cell.rows)>> >> ELSE <<>>)

\* spans, the local of render_cell
CellSpans(cell) ==
    (IF cell.columns # 1 THEN << <<"colspan", Digits(cell.columns)>> >> ELSE <<>>)
        \o (IF cell.rows # 1 THEN << <<"rowspan", Digits(cell.rows)>> >> ELSE <<>>)

\* the class names the isinstance chain of render_cell appends
SemanticClass(value) ==
    IF value.kind = "Ingredient" THEN << <<"rg-ingredient">> >>
    ELSE IF value.kind = "Reference" THEN << <<"rg-reference">> >>
    ELSE IF value.kind = "Step" THEN << <<"rg-step">> >>
    ELSE IF value.kind = "SubRecipe"
    THEN IF Len(value.output_names) = 1
         THEN << <<"rg-sub-recipe-header">> >>
         ELSE << <<"rg-sub-recipe-outputs">> >>
    ELSE <<>>

\* body, the local of render_cell, where the isinstance chain binds it
CellBody(value, id_prefix) ==
    IF value.kind = "Ingredient" THEN RenderIngredient(value)
    ELSE IF value.kind = "Reference" THEN RenderReference(value, id_prefix)
    ELSE IF value.kind = "Step" THEN RenderStep(value)
    ELSE IF Len(value.output_names) = 1 THEN RenderSubRecipeHeader(value)
    ELSE RenderSubRecipeOutputs(value, id_prefix)

Edges == <<"left", "right", "top", "bottom">>

BorderOf(cell, edge) ==
    CASE edge = "left" -> cell.border_left
      [] edge = "right" -> cell.border_right
      [] edge = "top" -> cell.border_top
      [] edge = "bottom" -> cell.border_bottom

\* Border classes that leave the top edge out
BorderClassesNoTop(cell) ==
    Concat([k \in 1..Len(Edges) |->
               IF BorderOf(cell, Edges[k]) # normal /\ Edges[k] # "top"
               THEN << <<"rg-border-", Edges[k], "-">>
                           \o ReplaceChar(BorderOf(cell, Edges[k]), "_", <<"-">>) >>
               ELSE <<>>])

\* the class names the loop over the edges appends
BorderClasses(cell) ==
    Concat([k \in 1..Len(Edges) |->
               IF BorderOf(cell, Edges[k]) # normal
               THEN << <<"rg-border-", Edges[k], "-">>
                           \o ReplaceChar(BorderOf(cell, Edges[k]), "_", <<"-">>) >>
               ELSE <<>>])

\* An unrecognised value rendered as an empty cell
CellRaisedNever(cell) ==
    IF cell.value.kind = "Reference" THEN ReferenceRaised(cell.value)
    ELSE None

\* the exception render_cell raises, if any: a value of no recognised kind
\* leaves body unbound
CellRaised(cell) ==
    IF cell.value.kind \notin Kinds THEN "UnboundLocalError"
    ELSE IF cell.value.kind = "Reference" THEN ReferenceRaised(cell.value)
    ELSE IF cell.value.kind = "Ingredient" /\ cell.value.quantity # Nothing
    THEN QuantityRaised(cell.value.quantity[1], QuantityKnown(cell.value.quantity[1]),
                        ConversionsOf(cell.value.quantity[1]))
    ELSE None

\* render_cell(cell, id_prefix), when it raises nothing
RenderCell(cell, id_prefix) ==
    T("td",
      IF cell.value.kind \in Kinds THEN CellBody(cell.value, id_prefix) ELSE <<>>,
      Class(JoinStr(SemanticClass(cell.value) \o BorderClasses(cell), <<" ">>))
          \o CellSpans(cell))

(***************************************************************************)
(* render_table and render_recipe_tree                                     *)
(***************************************************************************)
\* a slot of Table.cells that continues the span of an earlier cell
ExtendedCell == [slot |-> "ExtendedCell"]

\* isinstance(cell, Cell)
IsCell(slot) == slot.slot = "Cell"

\* A table renderer that gives every slot a cell
RenderTableEverySlot(table, id, id_prefix) ==
    T("table",
      Concat([r \in 1..Len(table.cells) |->
                 T("tr",
                   Concat([c \in 1..Len(table.cells[r]) |->
                              IF IsCell(table.cells[r][c])
                              THEN RenderCell(table.cells[r][c], id_prefix)
                              ELSE T("td", <<>>, <<>>)]),
                   <<>>)]),
      Class(<<"rg-table">>) \o (IF id # Nothing THEN << <<"id", id[1]>> >> ELSE <<>>))

\* render_table(table, id, id_prefix), when no cell raises
RenderTable(table, id, id_prefix) ==
    T("table",
      Concat([r \in 1..Len(table.cells) |->
                 LET row_cells == SelectSeq(table.cells[r], IsCell)
                 IN  T("tr",
                       Concat([c \in 1..Len(row_cells) |->
                                  RenderCell(row_cells[c], id_prefix)]),
                       <<>>)]),
      Class(<<"rg-table">>) \o (IF id # Nothing THEN << <<"id", id[1]>> >> ELSE <<>>))

\* the exception render_table raises, if any: that of the first cell to raise
TableRaised(table) ==
    LET cells == SelectSeq(Concat(table.cells), IsCell)
        raising == { k \in 1..Len(cells) : CellRaised(cells[k]) # None }
    IN  IF raising = {} THEN None
        ELSE CellRaised(cells[CHOOSE k \in raising : \A j \in raising : k <= j])

\* A tree renderer that never gives the table an id
RecipeTreeIdNever(recipe_tree, id_prefix) == Nothing

\* id, the local of render_recipe_tree
RecipeTreeId(recipe_tree, id_prefix) ==
    IF recipe_tree.kind = "SubRecipe" /\ Len(recipe_tree.output_names) = 1
    THEN Some(GenerateSubrecipeOutputId(recipe_tree, 0, id_prefix))
    ELSE Nothing

\* render_recipe_tree(recipe_tree, id_prefix), table being what
\* recipe_tree_to_table laid the tree out as
RenderRecipeTree(recipe_tree, table, id_prefix) ==
    RenderTable(table, RecipeTreeId(recipe_tree, id_prefix), id_prefix)

(***************************************************************************)
(* The calls.                                                              *)
(***************************************************************************)
NumChars == {"1", "4", " ", "/", "."}

RECURSIVE StringsOver(_, _)
\* the strings over alphabet of length at most n
StringsOver(alphabet, n) ==
    IF n = 0 THEN { <<>> }
    ELSE LET shorter == StringsOver(alphabet, n - 1)
         IN  shorter \cup { Append(s, c) : s \in shorter, c \in alphabet }

PrepChars == {"*", " ", "o", "&", "<"}

ProportionValues ==
    { Nothing, Some(Whole(0)), Some(Num(1, 3, FALSE)), Some(Num(1, 2, TRUE)),
      Some(Num(99, 100, FALSE)), Some(Whole(1)), Some(Num(1, 1, TRUE)) }

Wordings == { <<"r", "e", "s", "t">>, <<"*", "&">> }

Proportions(prepositions) ==
    [ kind : {"Proportion"}, value : ProportionValues, percentage : BOOLEAN,
      remainder_wording : Wordings, preposition : prepositions ]

QuantityValues == { Whole(0), Whole(1), Num(3, 2, TRUE) }

Units ==
    { Nothing, Some(<<"c", "u", "p">>), Some(<<"C", "u", "p">>), Some(<<"m", "l">>),
      Some(<<"K", "G">>), Some(<<"l", "b">>),
      Some(<<"p", "i", "n", "c", "h">>), Some(<<"c", "l", "o", "v", "e">>),
      Some(<<"<", "b">>) }

Quantities(units, prepositions) ==
    [ kind : {"Quantity"}, value : QuantityValues, unit : units,
      preposition : prepositions, value_unit_spacing : { <<>>, <<" ">> } ]

\* the orders in which a generator may yield the n items of a table
Orders(n) ==
    { order \in [1..n -> 1..n] : \A i, j \in 1..n : order[i] = order[j] => i = j }

Egg == << Str(<<"e", "g", "g">>) >>
TwoEggs == << Number(Whole(2)), Str(<<" ", "E", "g", "g", "s", "!">>) >>
SaltAndPepper == << Str(<<"s", "&", "p">>) >>

SubRecipes ==
    [ kind : {"SubRecipe"},
      output_names : { <<Egg>>, <<TwoEggs>>, <<Egg, TwoEggs>>, <<SaltAndPepper, Egg>> } ]

Amounts ==
    Quantities({ Nothing, Some(<<"c", "u", "p">>), Some(<<"c", "l", "o", "v", "e">>) },
               { <<>>, <<" ", "o", "f">> })
        \cup Proportions({ <<>>, <<"*">> })

References ==
    { [kind |-> "Reference", sub_recipe |-> sr, output_index |-> i, amount |-> a] :
        sr \in SubRecipes, i \in 0..1, a \in Amounts }

Prefixes == { <<"s", "u", "b", "-", "r", "e", "c", "i", "p", "e", "-">>, <<"x", "-">> }

HalfOf == [kind |-> "Proportion", value |-> Some(Num(1, 2, FALSE)), percentage |-> FALSE,
           remainder_wording |-> <<>>, preposition |-> <<" ", "o", "f">>]

AllOf == [kind |-> "Proportion", value |-> Some(Whole(1)), percentage |-> FALSE,
          remainder_wording |-> <<>>, preposition |-> <<>>]

OneCup == [kind |-> "Quantity", value |-> Whole(1), unit |-> Some(<<"c", "u", "p">>),
           preposition |-> <<>>, value_unit_spacing |-> <<" ">>]

\* the values of the cells: each kind, and one of no kind that render_cell knows
CellValues ==
    { [kind |-> "Ingredient", quantity |-> Nothing, description |-> Egg],
      [kind |-> "Ingredient", quantity |-> Some(OneCup), description |-> SaltAndPepper],
      [kind |-> "Reference", sub_recipe |-> [kind |-> "SubRecipe", output_names |-> <<TwoEggs>>],
       output_index |-> 0, amount |-> HalfOf],
      [kind |-> "Reference", sub_recipe |-> [kind |-> "SubRecipe", output_names |-> <<Egg, TwoEggs>>],
       output_index |-> 1, amount |-> AllOf],
      [kind |-> "Step", description |-> TwoEggs],
      [kind |-> "SubRecipe", output_names |-> <<TwoEggs>>],
      [kind |-> "SubRecipe", output_names |-> <<Egg, TwoEggs>>],
      [kind |-> "Other"] }

Cells(values, borders) ==
    [ slot : {"Cell"}, value : values, columns : 1..MaxSpan, rows : 1..MaxSpan,
      border_left : borders, border_right : borders, border_top : borders,
      border_bottom : borders ]

\* the positions a cell at position p with the spans hw covers
Area(p, hw) ==
    { <<r, c>> \in (p[1]..(p[1] + hw[1] - 1)) \X (p[2]..(p[2] + hw[2] - 1)) : TRUE }

RECURSIVE Tilings(_, _, _)
\* the ways to cover what is left of a rows x cols grid with cells
Tilings(rows, cols, covered) ==
    LET free == ((1..rows) \X (1..cols)) \ covered
    IN  IF free = {} THEN { {} }
        ELSE LET p == CHOOSE a \in free :
                          \A b \in free : a[1] < b[1] \/ (a[1] = b[1] /\ a[2] <= b[2])
                 fits == { hw \in (1..MaxSpan) \X (1..MaxSpan) :
                             /\ p[1] + hw[1] - 1 <= rows
                             /\ p[2] + hw[2] - 1 <= cols
                             /\ Area(p, hw) \cap covered = {} }
             IN  UNION { { {[at |-> p, spans |-> hw]} \cup rest :
                             rest \in Tilings(rows, cols, covered \cup Area(p, hw)) } :
                         hw \in fits }

\* the value of the cell at a position: its kind by the position and the
\* scheme, its text the position
ValueAt(scheme, r, c) ==
    LET label == << Str(Digits(r) \o Digits(c)) >>
        k == (r + c + scheme) % 3
    IN  IF k = 0 THEN [kind |-> "Step", description |-> label]
        ELSE IF k = 1 THEN [kind |-> "Ingredient", quantity |-> Nothing, description |-> label]
        ELSE [kind |-> "SubRecipe", output_names |-> <<label>>]

\* the table of a tiling
TableOf(rows, cols, tiling, scheme) ==
    [cells |->
        [r \in 1..rows |->
            [c \in 1..cols |->
                IF \E t \in tiling : t.at = <<r, c>>
                THEN LET t == CHOOSE t \in tiling : t.at = <<r, c>>
                     IN  [slot |-> "Cell", value |-> ValueAt(scheme, r, c),
                          columns |-> t.spans[2], rows |-> t.spans[1],
                          border_left |-> normal, border_right |-> normal,
                          border_top |-> normal, border_bottom |-> normal]
                ELSE ExtendedCell]]]

\* the well-formed tables of at most MaxRows rows and MaxCols columns
Tables ==
    UNION { { TableOf(rows, cols, tiling, scheme) :
                tiling \in Tilings(rows, cols, {}), scheme \in 0..2 } :
            rows \in 1..MaxRows, cols \in 1..MaxCols }

RecipeTrees ==
    { [kind |-> "SubRecipe", output_names |-> <<TwoEggs>>],
      [kind |-> "SubRecipe", output_names |-> <<Egg, TwoEggs>>],
      [kind |-> "Step", description |-> Egg] }

Init ==
    /\ call = "none"
    /\ args = [none |-> TRUE]
    /\ result = <<>>
    /\ raised = None

\* render_number(number), number given by the string format_number makes of it
render_number ==
    /\ call = "none"
    /\ \E string \in StringsOver(NumChars, MaxStrLen) :
           /\ call' = "render_number"
           /\ args' = [string |-> string]
           /\ result' = RenderNumberString(string)
           /\ raised' = None

render_proportion ==
    /\ call = "none"
    /\ \E proportion \in Proportions(StringsOver(PrepChars, MaxPrepLen)) :
           /\ call' = "render_proportion"
           /\ args' = [proportion |-> proportion]
           /\ result' = RenderProportion(proportion)
           /\ raised' = None

\* render_quantity(quantity), the unit system yielding in any order
render_quantity ==
    /\ call = "none"
    /\ \E quantity \in Quantities(Units, { <<" ", "o", "f">>, <<"&">> }) :
           LET known == QuantityKnown(quantity)
               table == ConversionsOf(quantity)
           IN  \E order \in Orders(Len(table)) :
                   LET conversions == [k \in 1..Len(table) |-> table[order[k]]]
                       exception == QuantityRaised(quantity, known, conversions)
                   IN  /\ call' = "render_quantity"
                       /\ args' = [quantity |-> quantity, known |-> known,
                                   conversions |-> conversions]
                       /\ raised' = exception
                       /\ result' = IF exception = None
                                    THEN RenderQuantityWith(quantity, known, conversions)
                                    ELSE <<>>

render_reference ==
    /\ call = "none"
    /\ \E reference \in References, id_prefix \in Prefixes :
           /\ reference.output_index < Len(reference.sub_recipe.output_names)
           /\ call' = "render_reference"
           /\ args' = [reference |-> reference, id_prefix |-> id_prefix]
           /\ raised' = ReferenceRaised(reference)
           /\ result' = IF ReferenceRaised(reference) = None
                        THEN RenderReference(reference, id_prefix)
                        ELSE <<>>

render_cell ==
    /\ call = "none"
    /\ \E cell \in Cells(CellValues, BorderType), id_prefix \in Prefixes :
           /\ call' = "render_cell"
           /\ args' = [cell |-> cell, id_prefix |-> id_prefix]
           /\ raised' = CellRaised(cell)
           /\ result' = IF CellRaised(cell) = None THEN RenderCell(cell, id_prefix) ELSE <<>>

render_table ==
    /\ call = "none"
    /\ \E table \in Tables, id \in { Nothing, Some(<<"t">>) },
          id_prefix \in { <<"s", "u", "b", "-", "r", "e", "c", "i", "p", "e", "-">> } :
           /\ call' = "render_table"
           /\ args' = [table |-> table, id |-> id, id_prefix |-> id_prefix]
           /\ raised' = TableRaised(table)
           /\ result' = IF TableRaised(table) = None
                        THEN RenderTable(table, id, id_prefix)
                        ELSE <<>>

\* render_recipe_tree(recipe_tree, id_prefix), the layout of the tree being
\* any table of one row
render_recipe_tree ==
    /\ call = "none"
    /\ \E recipe_tree \in RecipeTrees, table \in { t \in Tables : Len(t.cells) = 1 },
          id_prefix \in Prefixes :
           /\ call' = "render_recipe_tree"
           /\ args' = [recipe_tree |-> recipe_tree, table |-> table, id_prefix |-> id_prefix]
           /\ raised' = TableRaised(table)
           /\ result' = IF TableRaised(table) = None
                        THEN RenderRecipeTree(recipe_tree, table, id_prefix)
                        ELSE <<>>

Next ==
    \/ render_number
    \/ render_quantity
    \/ render_proportion
    \/ render_reference
    \/ render_cell
    \/ render_table
    \/ render_recipe_tree

Spec == Init /\ [][Next]_vars

(***************************************************************************)
(* Properties.                                                             *)
(***************************************************************************)
IsText(markup) == \A k \in 1..Len(markup) : markup[k].tag = ""

\* the characters of a run of text nodes
TextOf(markup) == [k \in 1..Len(markup) |-> markup[k].ch]

Positions(s, c) == { k \in 1..Len(s) : s[k] = c }

IsDigits(s) == Len(s) >= 1 /\ \A k \in 1..Len(s) : s[k] \in Digit

\* the grammar (optional "<int> ")<num>/<den>, read off the one slash
IsFractionString(s) ==
    \E p \in 1..Len(s) :
        /\ Positions(s, "/") = {p}
        /\ IsDigits(SubSeq(s, p + 1, Len(s)))
        /\ \/ IsDigits(SubSeq(s, 1, p - 1))
           \/ \E q \in 1..(p - 1) :
                 /\ s[q] = " "
                 /\ IsDigits(SubSeq(s, 1, q - 1))
                 /\ IsDigits(SubSeq(s, q + 1, p - 1))

\* one character escaped for markup
EscapeChar(c) ==
    CASE c = "&" -> <<"&", "a", "m", "p", ";">>
      [] c = "<" -> <<"&", "l", "t", ";">>
      [] c = ">" -> <<"&", "g", "t", ";">>
      [] c = "\"" -> <<"&", "q", "u", "o", "t", ";">>
      [] c = "'" -> <<"&", "#", "x", "2", "7", ";">>
      [] OTHER -> <<c>>

\* a string escaped character by character
EscapedText(s) == Concat([k \in 1..Len(s) |-> EscapeChar(s[k])])

\* C3: render_number turns a string of the fraction grammar into the integer
\* part verbatim, the numerator in a sup element, the fraction-slash glyph and
\* the denominator in a sub element; any other string comes back unchanged,
\* which for a numeric string is also its escaped form.
C3_RenderNumber ==
    call = "render_number" =>
        LET s == args.string
            n == Len(result)
        IN  IF IsFractionString(s)
            THEN /\ n >= 3
                 /\ result[n].tag = "sub" /\ result[n].attrs = <<>>
                 /\ result[n - 1] = Txt(<<"&frasl;">>)[1]
                 /\ result[n - 2].tag = "sup" /\ result[n - 2].attrs = <<>>
                 /\ IsText(SubSeq(result, 1, n - 3))
                 /\ IsText(result[n - 2].body) /\ IsText(result[n].body)
                 /\ LET integer == TextOf(SubSeq(result, 1, n - 3))
                        num == TextOf(result[n - 2].body)
                        den == TextOf(result[n].body)
                    IN  /\ integer \o num \o <<"/">> \o den = s
                        /\ IsDigits(num) /\ IsDigits(den)
                        /\ \/ integer = <<>>
                           \/ /\ integer[Len(integer)] = " "
                              /\ IsDigits(SubSeq(integer, 1, Len(integer) - 1))
            ELSE /\ result = Txt(s)
                 /\ result = Txt(EscapedText(s))

\* C3 witness: the mixed number "4 1/4" has been rendered as "4 ", sup, glyph, sub
C3_Witness ==
    /\ call = "render_number"
    /\ args.string = <<"4", " ", "1", "/", "4">>
    /\ Len(result) = 5
    /\ result[3].tag = "sup"
    /\ result[5].tag = "sub"

\* the preposition with each character escaped and each "*" of the original
\* turned into the multiplication glyph
GlyphedPreposition(s) ==
    Concat([k \in 1..Len(s) |-> IF s[k] = "*" THEN Times ELSE EscapeChar(s[k])])

\* C10: a Proportion without a value renders as the escaped remainder wording
\* and preposition, classed as the remainder, with no number markup and every
\* "*" kept; one with a value renders the number (times 100 for a percentage)
\* and then the escaped preposition in which exactly the "*" of the original
\* preposition became the multiplication glyph.
C10_RenderProportion ==
    call = "render_proportion" =>
        LET p == args.proportion
        IN  /\ Len(result) = 1
            /\ result[1].tag = "span"
            /\ IF p.value = Nothing
               THEN /\ result[1].attrs = << <<"class", <<"rg-proportion-remainder">>>> >>
                    /\ IsText(result[1].body)
                    /\ TextOf(result[1].body)
                         = EscapedText(p.remainder_wording) \o EscapedText(p.preposition)
               ELSE /\ result[1].attrs = << <<"class", <<"rg-proportion">>>> >>
                    /\ result[1].body
                         = RenderNumber(IF p.percentage
                                        THEN Num(100 * p.value[1].num, p.value[1].den,
                                                 p.value[1].float)
                                        ELSE p.value[1])
                             \o Txt(GlyphedPreposition(p.preposition))

\* C10 witness: a percentage with a value and the preposition "*&" was rendered
C10_Witness ==
    /\ call = "render_proportion"
    /\ args.proportion.value = Some(Num(1, 2, TRUE))
    /\ args.proportion.percentage
    /\ args.proportion.preposition = <<"*", "&">>
    /\ Len(result) = 1

\* one alternative as all_forms holds it: number, spacing, unit
Form(quantity, value, unit) ==
    RenderNumber(value) \o Txt(EscapedText(quantity.value_unit_spacing))
        \o Txt(EscapedText(unit))

\* the alternatives a rendered quantity displays, in order: the inline form,
\* then the entries of its conversion list
Displayed(markup) ==
    LET body == markup[1].body
    IN  IF body # <<>> /\ body[Len(body)].tag = "ul"
        THEN <<SubSeq(body, 1, Len(body) - 1)>>
                 \o [k \in 1..Len(body[Len(body)].body) |-> body[Len(body)].body[k].body]
        ELSE <<body>>

\* a is displayed before b: exact before approximate, then by unit name
DisplayedBefore(a, b) ==
    \/ ~a.scale.float /\ b.scale.float
    \/ a.scale.float = b.scale.float /\ StrLess(a.name, b.name)

\* C1: for a unit the conversion table knows, whatever the order the table
\* yields its conversions in, the first alternative displayed is the original
\* value with the original unit, and every other conversion is displayed at
\* the place its rank gives it: exact scales before float scales, and by
\* target unit name within each.
C1_NativeFirstThenExactThenName ==
    (call = "render_quantity" /\ args.quantity.unit # Nothing
        /\ UnitKnown(Lower(args.quantity.unit[1]))) =>
        LET q == args.quantity
            conv == args.conversions
            shown == Displayed(result)
            others == { k \in 1..Len(conv) : conv[k].name # Lower(q.unit[1]) }
            Rank(k) == 1 + Cardinality({ j \in others : DisplayedBefore(conv[j], conv[k]) })
        IN  /\ raised = None
            /\ Len(shown) = Len(conv)
            /\ shown[1] = Form(q, q.value, q.unit[1])
            /\ \A k \in others :
                  shown[1 + Rank(k)] = Form(q, Mul(q.value, conv[k].scale), conv[k].name)

\* C1 witness: 1 Cup was rendered with the table yielding ml first and the
\* cup itself last, and the conversions are listed
C1_Witness ==
    /\ call = "render_quantity"
    /\ args.quantity.unit = Some(<<"C", "u", "p">>)
    /\ args.quantity.value = Whole(1)
    /\ Len(args.conversions) = 4
    /\ args.conversions[1].name = <<"m", "l">>
    /\ args.conversions[4].name = <<"c", "u", "p">>
    /\ Len(Displayed(result)) = 4

\* C9: a unit the conversion table does not know raises nothing; the quantity
\* renders as the single alternative, the original value and unit, in the
\* plain span without a conversion list, followed by the escaped preposition.
C9_UnknownUnitFallsBack ==
    (call = "render_quantity" /\ args.quantity.unit # Nothing
        /\ ~UnitKnown(Lower(args.quantity.unit[1]))) =>
        LET q == args.quantity
        IN  /\ raised = None
            /\ result
                 = T("span", Form(q, q.value, q.unit[1]),
                     Class(<<"rg-quantity-without-conversions", " ", "rg-scaled-value">>))
                     \o Txt(EscapedText(q.preposition))

\* C9 witness: 1/2 clove, a unit outside the table, was rendered with the
\* preposition " of"
C9_Witness ==
    /\ call = "render_quantity"
    /\ args.quantity.unit = Some(<<"c", "l", "o", "v", "e">>)
    /\ args.quantity.value = Num(3, 2, TRUE)
    /\ args.quantity.preposition = <<" ", "o", "f">>
    /\ Len(result) = 4

HasAttr(node, name) == \E k \in 1..Len(node.attrs) : node.attrs[k][1] = name

AttrValue(node, name) ==
    node.attrs[CHOOSE k \in 1..Len(node.attrs) : node.attrs[k][1] = name][2]

RECURSIVE Split(_)
\* the names of a class list, which single spaces separate
Split(s) ==
    IF s = <<>> THEN <<>>
    ELSE IF Positions(s, " ") = {} THEN <<s>>
    ELSE LET k == CHOOSE a \in Positions(s, " ") : \A b \in Positions(s, " ") : a <= b
         IN  <<SubSeq(s, 1, k - 1)>> \o Split(SubSeq(s, k + 1, Len(s)))

ClassList(node) == Split(AttrValue(node, "class"))

RECURSIVE IdsIn(_)
\* the id attributes of the elements of some markup, at any depth
IdsIn(markup) ==
    UNION { (IF HasAttr(markup[k], "id") THEN {AttrValue(markup[k], "id")} ELSE {})
                \cup IdsIn(markup[k].body) : k \in 1..Len(markup) }

IsSingleOutput(value) == value.kind = "SubRecipe" /\ Len(value.output_names) = 1

\* C2, as claimed: the header cell of a SubRecipe with one output carries the
\* anchor id of output 0.
C2_HeaderCellCarriesAnchor ==
    (call = "render_cell" /\ raised = None /\ IsSingleOutput(args.cell.value)) =>
        GenerateSubrecipeOutputId(args.cell.value, 0, args.id_prefix) \in IdsIn(result)

\* C2, amended: the cell of a SubRecipe with one output is the plain header,
\* the rendered name of the output with no list around it, and carries no id;
\* render_recipe_tree puts the anchor id of output 0 on the table element
\* exactly when the root of the tree is such a SubRecipe; and the href of a
\* Reference is "#" followed by the anchor id of its target output under the
\* same prefix.
C2_AnchorOnTableOfRoot ==
    /\ (call = "render_cell" /\ raised = None /\ IsSingleOutput(args.cell.value)) =>
          /\ Len(result) = 1
          /\ result[1].tag = "td"
          /\ ClassList(result[1])[1] = <<"rg-sub-recipe-header">>
          /\ result[1].body = RenderScaledValueString(args.cell.value.output_names[1])
          /\ \A k \in 1..Len(result[1].body) : result[1].body[k].tag \notin {"ul", "li"}
          /\ IdsIn(result) = {}
    /\ (call = "render_recipe_tree" /\ raised = None) =>
          /\ Len(result) = 1
          /\ result[1].tag = "table"
          /\ IF IsSingleOutput(args.recipe_tree)
             THEN /\ HasAttr(result[1], "id")
                  /\ AttrValue(result[1], "id")
                       = GenerateSubrecipeOutputId(args.recipe_tree, 0, args.id_prefix)
             ELSE ~HasAttr(result[1], "id")
    /\ (call = "render_reference" /\ raised = None) =>
          /\ Len(result) = 1
          /\ result[1].tag = "a"
          /\ result[1].attrs
               = << <<"href", <<"#">> \o GenerateSubrecipeOutputId(
                                            args.reference.sub_recipe,
                                            args.reference.output_index,
                                            args.id_prefix)>> >>

\* C2 witness: a tree whose root is a SubRecipe with the one output "2 Eggs!"
\* was rendered under the prefix "x-", and the table has the id "x-2-Eggs"
C2_Witness ==
    /\ call = "render_recipe_tree"
    /\ args.recipe_tree = [kind |-> "SubRecipe", output_names |-> <<TwoEggs>>]
    /\ args.id_prefix = <<"x", "-">>
    /\ Len(result) = 1
    /\ HasAttr(result[1], "id")
    /\ AttrValue(result[1], "id") = <<"x", "-", "2", "-", "E", "g", "g", "s">>

\* C4: a Reference whose amount is a Proportion of the value 1 has the
\* rendered name of its target output as its whole link body; with any other
\* Proportion, be it 0.99, 0.5 or the remainder, and with any Quantity, the
\* body is the amount markup, not empty, one space, and then the name.
C4_FullShareOmitsAmount ==
    call = "render_reference" =>
        LET amount == args.reference.amount
            name == RenderScaledValueString(
                        args.reference.sub_recipe.output_names[
                            args.reference.output_index + 1])
            body == result[1].body
            n == Len(body) - Len(name)
        IN  /\ raised = None
            /\ Len(result) = 1
            /\ result[1].tag = "a"
            /\ IF /\ amount.kind = "Proportion"
                  /\ amount.value # Nothing
                  /\ amount.value[1].num = amount.value[1].den
               THEN body = name
               ELSE /\ n >= 2
                    /\ SubSeq(body, n + 1, Len(body)) = name
                    /\ body[n] = Txt(<<" ">>)[1]
                    /\ body[1].tag = "span"
                    /\ SubSeq(body, 1, n - 1)
                         = IF amount.kind = "Proportion" THEN RenderProportion(amount)
                           ELSE RenderQuantity(amount)

\* C4 witness: a Reference to 100% (the float 1.0) of "egg" was rendered, and
\* its link body is the three characters of the name
C4_Witness ==
    /\ call = "render_reference"
    /\ args.reference.amount.kind = "Proportion"
    /\ args.reference.amount.value = Some(Num(1, 1, TRUE))
    /\ args.reference.amount.percentage
    /\ args.reference.sub_recipe.output_names = <<Egg>>
    /\ Len(result) = 1
    /\ Len(result[1].body) = 3

SemanticClassNames ==
    { <<"rg-ingredient">>, <<"rg-reference">>, <<"rg-step">>,
      <<"rg-sub-recipe-header">>, <<"rg-sub-recipe-outputs">> }

\* the semantic class of each kind of value
ClassOfKind(value) ==
    CASE value.kind = "Ingredient" -> <<"rg-ingredient">>
      [] value.kind = "Reference" -> <<"rg-reference">>
      [] value.kind = "Step" -> <<"rg-step">>
      [] value.kind = "SubRecipe" /\ Len(value.output_names) = 1 -> <<"rg-sub-recipe-header">>
      [] value.kind = "SubRecipe" /\ Len(value.output_names) > 1 -> <<"rg-sub-recipe-outputs">>

\* C5: render_cell either returns one cell element whose class list holds
\* exactly one semantic class, that of the kind of its value, or, for a value
\* of none of the four kinds, raises and returns no markup.
C5_OneSemanticClassOrError ==
    call = "render_cell" =>
        IF args.cell.value.kind \in {"Ingredient", "Reference", "Step", "SubRecipe"}
        THEN /\ raised = None
             /\ Len(result) = 1
             /\ result[1].tag = "td"
             /\ LET classes == ClassList(result[1])
                IN  /\ Cardinality({ k \in 1..Len(classes) :
                                       classes[k] \in SemanticClassNames }) = 1
                    /\ classes[1] = ClassOfKind(args.cell.value)
        ELSE /\ raised # None
             /\ result = <<>>

\* C5 witness: a cell whose value is of no recognised kind was rendered, and
\* the call raised
C5_Witness ==
    /\ call = "render_cell"
    /\ args.cell.value.kind = "Other"
    /\ args.cell.border_left = none
    /\ raised = "UnboundLocalError"
    /\ result = <<>>

\* the cells of one row of Table.cells, with their columns, in column order
OriginColumns(row) == { c \in 1..Len(row) : row[c].slot = "Cell" }

\* C6: render_table returns one table element holding one row element for
\* each row of the grid, in order; the row element of a row holds one cell
\* element for each span-origin cell of the row, in column order, and none for
\* a continuation slot, so that a row of continuation slots gives an empty row
\* element.
C6_RowsAndOriginCells ==
    (call = "render_table" /\ raised = None) =>
        LET cells == args.table.cells
        IN  /\ Len(result) = 1
            /\ result[1].tag = "table"
            /\ Len(result[1].body) = Len(cells)
            /\ \A r \in 1..Len(cells) :
                  LET tr == result[1].body[r]
                      origins == OriginColumns(cells[r])
                  IN  /\ tr.tag = "tr"
                      /\ Len(tr.body) = Cardinality(origins)
                      /\ \A c \in origins :
                            LET td == tr.body[Cardinality({ o \in origins : o <= c })]
                            IN  /\ td.tag = "td"
                                /\ IsText(td.body)
                                /\ TextOf(td.body) = Digits(r) \o Digits(c)

\* C6 witness: a table of two rows whose second row is all continuation slots
\* was rendered, and its second row element is empty
C6_Witness ==
    /\ call = "render_table"
    /\ Len(args.table.cells) = 2
    /\ Len(args.table.cells[2]) = 2
    /\ OriginColumns(args.table.cells[2]) = {}
    /\ Len(result) = 1
    /\ Len(result[1].body) = 2
    /\ Len(result[1].body[1].body) = 1
    /\ result[1].body[2].body = <<>>

\* C7: the cell element has a rowspan attribute exactly when the cell spans
\* more than one row and a colspan attribute exactly when it spans more than
\* one column, each with the span in decimal as its value.
C7_SpanAttributes ==
    (call = "render_cell" /\ raised = None) =>
        /\ HasAttr(result[1], "rowspan") <=> args.cell.rows > 1
        /\ HasAttr(result[1], "colspan") <=> args.cell.columns > 1
        /\ args.cell.rows > 1 => AttrValue(result[1], "rowspan") = Digits(args.cell.rows)
        /\ args.cell.columns > 1
              => AttrValue(result[1], "colspan") = Digits(args.cell.columns)

\* C7 witness: a cell of two rows and one column was rendered with a rowspan
\* and without a colspan
C7_Witness ==
    /\ call = "render_cell"
    /\ raised = None
    /\ args.cell.rows = 2
    /\ args.cell.columns = 1
    /\ HasAttr(result[1], "rowspan")
    /\ ~HasAttr(result[1], "colspan")

\* the style part of a border class
StyleName(border) ==
    CASE border = sub_recipe -> <<"s", "u", "b", "-", "r", "e", "c", "i", "p", "e">>
      [] border = none -> <<"n", "o", "n", "e">>
      [] border = normal -> <<"n", "o", "r", "m", "a", "l">>

StyleOf(cell, edge) ==
    CASE edge = "left" -> cell.border_left
      [] edge = "right" -> cell.border_right
      [] edge = "top" -> cell.border_top
      [] edge = "bottom" -> cell.border_bottom

EdgeRank(edge) ==
    CASE edge = "left" -> 1 [] edge = "right" -> 2 [] edge = "top" -> 3
      [] edge = "bottom" -> 4

\* C8: the class list of a cell element is the semantic class followed by
\* the class rg-border-<edge>-<style> of exactly those edges whose style is
\* not normal, in the order left, right, top, bottom; with four normal
\* borders it is the semantic class alone.
C8_BorderClasses ==
    (call = "render_cell" /\ raised = None) =>
        LET classes == ClassList(result[1])
            edges == {"left", "right", "top", "bottom"}
            At(edge) == { k \in 2..Len(classes) :
                            classes[k][1] = "rg-border-" /\ classes[k][2] = edge }
        IN  /\ Len(classes) >= 1
            /\ classes[1] \in SemanticClassNames
            /\ \A k \in 2..Len(classes) : \E edge \in edges : k \in At(edge)
            /\ \A edge \in edges :
                  IF StyleOf(args.cell, edge) = normal
                  THEN At(edge) = {}
                  ELSE /\ Cardinality(At(edge)) = 1
                       /\ \A k \in At(edge) :
                             classes[k] = <<"rg-border-", edge, "-">>
                                              \o StyleName(StyleOf(args.cell, edge))
            /\ \A e, f \in edges : \A j \in At(e), k \in At(f) :
                  EdgeRank(e) < EdgeRank(f) => j < k

\* C8 witness: a cell with the left border none, the top border sub_recipe
\* and the others normal was rendered with three classes
C8_Witness ==
    /\ call = "render_cell"
    /\ raised = None
    /\ args.cell.border_left = none
    /\ args.cell.border_right = normal
    /\ args.cell.border_top = sub_recipe
    /\ args.cell.border_bottom = normal
    /\ Len(ClassList(result[1])) = 3

====
